---------------------------- MODULE Spec2Model ----------------------------
(***************************************************************************)
(* A model of nerwhal's recognition core (src/nerwhal/core.py):             *)
(*   - Core.update_config: the config-equality gate and the rebuild of the  *)
(*     tokenizer, the backends and the recognizer registry;                 *)
(*   - Core._run_in_parallel: one process and one pipe per backend, join    *)
(*     of every process, then one recv per pipe;                            *)
(*   - recognize: update_config, run_recognition, combine, token indices,   *)
(*     context boosting (SpecCombine, SpecRecognize, SpecBoost);            *)
(*   - evaluate (SpecEvaluate).                                             *)
(* nerwhal.combination_strategies, nerwhal.tokenizer, nerwhal.utils and     *)
(* nerwhal.scorer are not part of the sources at hand; the strategies, the  *)
(* tokenizer, add_token_indices and score_entities are modelled from        *)
(* sections 3, 4.2, 4.4, 4.5 and 6 of the specification.                    *)
(***************************************************************************)
EXTENDS Integers, Sequences, FiniteSets, TLC

VARIABLES
    config,             \* Core.config: <<>> is None, <<c>> a Config value
    tokenizer,          \* Core.tokenizer: <<>> is None, <<t>> a Tokenizer
    backends,           \* Core.backends, in insertion order
    recognizer_lookup,  \* Core.recognizer_lookup: <<>> is None, <<S>> a dict's keys
    nbuilds,            \* number of rebuilds begun so far (names the instances)
    ncalls,             \* number of recognize calls made so far
    arg,                \* the Config value the caller passed to the current call
    argAfter,           \* the value of the caller's Config object after update_config
    lastUpdate,         \* how update_config ended in the current call
    pc,                 \* position of the current recognize call
    idx,                \* loop index of _run_in_parallel
    proc,               \* per backend position: the state of its process
    pipe,               \* per backend position: the messages buffered in its pipe
    sendOpen,           \* per backend position: the parent still holds send_end
    finished,           \* backend positions in the order their processes ended
    results,            \* the list _run_in_parallel builds
    entLists,           \* combine: the per-backend entity lists
    strategy,           \* combine: the combination strategy
    ents,               \* combine: the combined list
    cpc,                \* combine: position of the combination run
    text,               \* recognize: the tokens the tokenizer yields for the text
    CONTEXT_WORDS,      \* recognize: the CONTEXT_WORDS of each recognizer class
    compute_tokens,     \* recognize: the parameter of that name
    context_words,      \* recognize: the parameter of that name
    tokens,             \* recognize: the local of that name
    entIdx,             \* recognize: position of the loop over ents
    scoresBefore,       \* recognize: the scores of ents when the loop began
    steps,              \* recognize: the steps taken so far, in order
    error,              \* recognize: the exception raised, "" for none
    result,             \* recognize: the dict returned
    predicted,          \* evaluate: the entities to score
    gold,               \* evaluate: the reference entities
    metrics,            \* evaluate: the value returned
    epc                 \* evaluate: position of the evaluation

coreVars == <<config, tokenizer, backends, recognizer_lookup, nbuilds, ncalls,
              arg, argAfter, lastUpdate>>
orchVars == <<pc, idx, proc, pipe, sendOpen, finished, results>>
combVars == <<entLists, strategy, ents, cpc>>
tailVars == <<text, CONTEXT_WORDS, compute_tokens, context_words, tokens, entIdx,
              scoresBefore, steps, error, result>>
evalVars == <<predicted, gold, metrics, epc>>
vars == <<coreVars, orchVars, combVars, tailVars, evalVars>>

---------------------------------------------------------------------------
(* Bounds of the model *)

\* longest recognizer_paths list a caller passes
MaxPaths == 2
\* number of recognize calls in a behaviour
MaxCalls == 2
\* capacity of a pipe's buffer, in units of result size
PipeCap == 1
\* largest result a backend sends, in the same units
MaxResultSize == 2
\* length of the text: character offsets are 0..MaxChar
MaxChar == 2
\* number of entities the backends return altogether
MaxEnts == 3

---------------------------------------------------------------------------
(* The caller's recognizer files *)

RE_PATH == "recognizers/phone_recognizer.py"
SPACY_PATH == "recognizers/name_recognizer.py"
RULER_PATH == "recognizers/title_recognizer.py"
MISSING_PATH == "recognizers/missing_recognizer.py"
EXAMPLE_PATH == "nerwhal/example_recognizers/email_recognizer.py"

UserPaths == {RE_PATH, SPACY_PATH, RULER_PATH, MISSING_PATH}

\* os.listdir(EXAMPLE_RECOGNIZERS_PATH), filtered by the suffix _recognizer.py
EXAMPLE_RECOGNIZERS == <<EXAMPLE_PATH>>

\* os.path.isfile
IsFile(p) == p # MISSING_PATH

\* Core._load_class: the class named after the module's base name
LoadClass(p) ==
    CASE p = RE_PATH -> "PhoneRecognizer"
      [] p = SPACY_PATH -> "NameRecognizer"
      [] p = RULER_PATH -> "TitleRecognizer"
      [] p = EXAMPLE_PATH -> "EmailRecognizer"
      [] OTHER -> "MissingRecognizer"

\* recognizer_cls.BACKEND
BACKEND(cls) ==
    CASE cls = "PhoneRecognizer" -> "re"
      [] cls = "EmailRecognizer" -> "re"
      [] cls = "NameRecognizer" -> "spacy"
      [] OTHER -> "entity-ruler"

\* nerwhal.backends.load: the backend class, or the ValueError it raises
load(backend) ==
    IF backend = "spacy" THEN "SpacyBackend"
    ELSE IF backend = "re" THEN "ReBackend"
    ELSE "ValueError"

Languages == {"de"}

\* the Config values a caller passes
Configs ==
    [language : Languages,
     use_statistical_ner : BOOLEAN,
     load_example_recognizers : BOOLEAN,
     recognizer_paths : UNION {[1..n -> UserPaths] : n \in 0..MaxPaths}]

Range(s) == {s[i] : i \in 1..Len(s)}

---------------------------------------------------------------------------
(* Core.update_config *)

Keys(bs) == {bs[i].key : i \in 1..Len(bs)}

IndexOf(bs, k) == CHOOSE i \in 1..Len(bs) : bs[i].key = k

\* Core._add_examples_to_config_recognizer_paths
RECURSIVE AddExamples(_, _, _)
AddExamples(paths, files, k) ==
    IF k > Len(files) THEN paths
    ELSE AddExamples(IF files[k] \in Range(paths) THEN paths ELSE Append(paths, files[k]),
                     files, k + 1)

\* the gate of update_config: config == self.config
ConfigUnchangedAlwaysRebuild(c) == FALSE
ConfigUnchanged(c) == config = <<c>>

\* self.backends = {}
FreshBackendsKept == backends
FreshBackends == <<>>

\* one iteration of the loop over self.config.recognizer_paths; st.raised is
\* the error raised so far ("" for none), after which nothing more is done
RegisterPath(st, p, lang, gen) ==
    IF st.raised # "" THEN st
    ELSE IF ~IsFile(p) THEN [st EXCEPT !.raised = "ValueError: not a file"]
    ELSE LET cls == LoadClass(p)
             lk == st.lookup \cup {cls}
             b == BACKEND(cls)
             known == b \in Keys(st.backends)
             inst == [key |-> b, cls |-> load(b), inst |-> gen,
                      language |-> IF b = "entity-ruler" THEN lang ELSE "",
                      recs |-> <<>>]
             bs == IF known THEN st.backends ELSE Append(st.backends, inst)
             i == IndexOf(bs, b)
         IN IF ~known /\ load(b) = "ValueError"
            THEN [st EXCEPT !.lookup = lk, !.raised = "ValueError: unknown backend"]
            ELSE [st EXCEPT !.lookup = lk,
                            !.backends = [bs EXCEPT ![i].recs = Append(@, cls)]]

RECURSIVE RegisterAll(_, _, _, _, _)
RegisterAll(st, paths, k, lang, gen) ==
    IF k > Len(paths) THEN st
    ELSE RegisterAll(RegisterPath(st, paths[k], lang, gen), paths, k + 1, lang, gen)

\* update_config(c) from the current state: the fields of Core afterwards, the
\* value of the caller's Config object afterwards, and how the call ended
update_config(c) ==
    IF ConfigUnchanged(c)
    THEN [config |-> config, tokenizer |-> tokenizer, backends |-> backends,
          recognizer_lookup |-> recognizer_lookup, nbuilds |-> nbuilds,
          argAfter |-> c, how |-> "skipped"]
    ELSE LET gen == nbuilds + 1
             stat == IF c.use_statistical_ner
                     THEN Append(FreshBackends,
                                 [key |-> "stanza", cls |-> "StanzaNerBackend", inst |-> gen,
                                  language |-> c.language, recs |-> <<>>])
                     ELSE FreshBackends
             paths == IF c.load_example_recognizers
                      THEN AddExamples(c.recognizer_paths, EXAMPLE_RECOGNIZERS, 1)
                      ELSE c.recognizer_paths
             held == [c EXCEPT !.recognizer_paths = paths]
             st == RegisterAll([backends |-> stat, lookup |-> {}, raised |-> ""],
                               paths, 1, c.language, gen)
         IN [config |-> <<held>>,
             tokenizer |-> <<[language |-> c.language, inst |-> gen]>>,
             backends |-> st.backends,
             recognizer_lookup |-> <<st.lookup>>,
             nbuilds |-> gen,
             argAfter |-> held,
             how |-> IF st.raised = "" THEN "rebuilt" ELSE "raised"]

---------------------------------------------------------------------------
(* Core._run_in_parallel *)

\* what backend.run(text) of the backend at position i returns
Payload(i) == backends[i].key

\* pipe_conns[k]: the receiving end appended in the k-th iteration
ConnAtCompletion(k) == finished[k]
ConnAt(k) == k

NoProcs(n) == [i \in 1..n |-> "none"]
NoPipes(n) == [i \in 1..n |-> <<>>]
NoHandles(n) == [i \in 1..n |-> FALSE]

\* recognize: core.update_config(config), then the entry of run_recognition
Recognize(c) ==
    /\ pc \in {"idle", "returned", "raised"}
    /\ ncalls < MaxCalls
    /\ LET r == update_config(c)
           n == Len(r.backends)
       IN /\ config' = r.config
          /\ tokenizer' = r.tokenizer
          /\ backends' = r.backends
          /\ recognizer_lookup' = r.recognizer_lookup
          /\ nbuilds' = r.nbuilds
          /\ argAfter' = r.argAfter
          /\ lastUpdate' = r.how
          /\ pc' = IF r.how = "raised" THEN "raised"
                   ELSE IF n = 0 THEN "combine" ELSE "start"
          /\ proc' = IF r.how = "raised" THEN <<>> ELSE NoProcs(n)
          /\ pipe' = IF r.how = "raised" THEN <<>> ELSE NoPipes(n)
          /\ sendOpen' = IF r.how = "raised" THEN <<>> ELSE NoHandles(n)
    /\ ncalls' = ncalls + 1
    /\ arg' = c
    /\ idx' = 1
    /\ finished' = <<>>
    /\ results' = <<>>
    /\ UNCHANGED <<combVars, tailVars, evalVars>>

\* one iteration of the first loop: Pipe(False), Process(...), proc.start().
\* Rebinding send_end drops the parent's last reference to the handle of the
\* previous iteration, which closes it (Process.start keeps no reference to
\* its args); the handle of the last iteration stays open in the parent.
StartProc ==
    /\ pc = "start"
    /\ proc' = [proc EXCEPT ![idx] = "running"]
    /\ sendOpen' = [i \in 1..Len(sendOpen) |-> i = idx]
    /\ IF idx = Len(backends)
       THEN pc' = "join" /\ idx' = 1
       ELSE pc' = "start" /\ idx' = idx + 1
    /\ UNCHANGED <<coreVars, pipe, finished, results, combVars, tailVars, evalVars>>

\* target in the child: func(arg) returns and pipe_end.send writes the result;
\* a result larger than the pipe's free buffer leaves the child in send
ChildReturn(i, size) ==
    /\ proc[i] = "running"
    /\ IF size <= PipeCap
       THEN /\ pipe' = [pipe EXCEPT ![i] = Append(@, Payload(i))]
            /\ proc' = [proc EXCEPT ![i] = "exited"]
            /\ finished' = Append(finished, i)
       ELSE /\ proc' = [proc EXCEPT ![i] = "blocked"]
            /\ UNCHANGED <<pipe, finished>>
    /\ UNCHANGED <<coreVars, pc, idx, sendOpen, results, combVars, tailVars, evalVars>>

\* target in the child: func(arg) raises, the process ends without a send
ChildRaise(i) ==
    /\ proc[i] = "running"
    /\ proc' = [proc EXCEPT ![i] = "failed"]
    /\ finished' = Append(finished, i)
    /\ UNCHANGED <<coreVars, pc, idx, pipe, sendOpen, results, combVars, tailVars, evalVars>>

\* proc.join() returns once the process has ended
JoinableAlways(i) == TRUE
Joinable(i) == proc[i] \in {"exited", "failed"}

\* one iteration of the second loop: proc.join()
Join ==
    /\ pc = "join"
    /\ Joinable(idx)
    /\ IF idx = Len(backends)
       THEN pc' = "recv" /\ idx' = 1
       ELSE pc' = "join" /\ idx' = idx + 1
    /\ UNCHANGED <<coreVars, proc, pipe, sendOpen, finished, results, combVars, tailVars, evalVars>>

\* a writer of the pipe at position i exists: the parent's handle, or the child
WriterOpen(i) == sendOpen[i] \/ proc[i] \in {"running", "blocked"}

\* one conn.recv() of the list comprehension: a buffered message is returned,
\* an empty pipe without writers raises EOFError, otherwise recv blocks.
\* The EOFError leaves _run_in_parallel and recognize; their locals are gone.
Recv ==
    /\ pc = "recv"
    /\ LET c == ConnAt(idx)
       IN IF pipe[c] # <<>>
          THEN /\ results' = Append(results, Head(pipe[c]))
               /\ pipe' = [pipe EXCEPT ![c] = Tail(@)]
               /\ IF idx = Len(backends)
                  THEN pc' = "combine" /\ idx' = 1
                  ELSE pc' = "recv" /\ idx' = idx + 1
               /\ UNCHANGED <<proc, sendOpen, finished>>
          ELSE /\ ~WriterOpen(c)
               /\ pc' = "raised"
               /\ idx' = 1
               /\ proc' = <<>>
               /\ pipe' = <<>>
               /\ sendOpen' = <<>>
               /\ finished' = <<>>
               /\ results' = <<>>
    /\ UNCHANGED <<coreVars, combVars, tailVars, evalVars>>

\* the rest of recognize after run_recognition returned; on return the
\* processes, the pipes and the handles of the call are gone
Finish ==
    /\ pc = "combine"
    /\ pc' = "returned"
    /\ proc' = <<>>
    /\ pipe' = <<>>
    /\ sendOpen' = <<>>
    /\ finished' = <<>>
    /\ UNCHANGED <<coreVars, idx, results, combVars, tailVars, evalVars>>

---------------------------------------------------------------------------

\* no call of recognize has got beyond run_recognition
TailIdle ==
    /\ text = <<>>
    /\ CONTEXT_WORDS = <<>>
    /\ compute_tokens = FALSE
    /\ context_words = FALSE
    /\ tokens = <<>>
    /\ entIdx = 1
    /\ scoresBefore = <<>>
    /\ steps = <<>>
    /\ error = ""
    /\ result = <<>>

\* evaluate has not been called
EvalIdle ==
    /\ predicted = <<>>
    /\ gold = <<>>
    /\ metrics = <<>>
    /\ epc = "unused"

Init ==
    /\ config = <<>>
    /\ tokenizer = <<>>
    /\ backends = <<>>
    /\ recognizer_lookup = <<>>
    /\ nbuilds = 0
    /\ ncalls = 0
    /\ arg = <<>>
    /\ argAfter = <<>>
    /\ lastUpdate = "none"
    /\ pc = "idle"
    /\ idx = 1
    /\ proc = <<>>
    /\ pipe = <<>>
    /\ sendOpen = <<>>
    /\ finished = <<>>
    /\ results = <<>>
    /\ entLists = <<>>
    /\ strategy = "append"
    /\ ents = <<>>
    /\ cpc = "unused"
    /\ TailIdle
    /\ EvalIdle

Next ==
    \/ \E c \in Configs : Recognize(c)
    \/ \E c \in Range(config) : Recognize(c)
    \/ StartProc
    \/ \E i \in 1..Len(proc), size \in 1..MaxResultSize : ChildReturn(i, size)
    \/ \E i \in 1..Len(proc) : ChildRaise(i)
    \/ Join
    \/ Recv
    \/ Finish

Spec == Init /\ [][Next]_vars

---------------------------------------------------------------------------
(* The Combination Engine: combine of nerwhal.combination_strategies *)

\* the producers of the entity lists, in registration order
Recognizers == <<"A", "B">>

\* recognizer_cls.TAG of each producer
TagOf(r) == IF r = "A" THEN "EMAIL" ELSE "PHONE"

\* confidence scores, on an integer scale
Scores == {1, 2}

Strategies == {"append", "disjunctive_union", "fusion"}

\* a provenance field: the identifier a backend sets, or the list fusion sets
Str(r) == [kind |-> "str", ids |-> <<r>>]
List(rs) == [kind |-> "list", ids |-> rs]

\* the entities the backend of producer r may return: 0 <= start < end <= MaxChar
EntitiesOf(r) ==
    {[start_char |-> a, end_char |-> b, tag |-> TagOf(r), score |-> sc,
      recognizer |-> Str(r)] :
        <<a, b>> \in {sp \in (0..MaxChar) \X (0..MaxChar) : sp[1] < sp[2]},
        sc \in Scores}

\* the lists of n entities the backend of producer r may return
ListsOf(r, n) == [1..n -> EntitiesOf(r)]

Overlaps(a, b) == a.start_char < b.end_char /\ b.start_char < a.end_char

\* all candidates in input order, each with the position of its list
RECURSIVE Candidates(_, _)
Candidates(lists, k) ==
    IF k > Len(lists) THEN <<>>
    ELSE [j \in 1..Len(lists[k]) |-> [ent |-> lists[k][j], list |-> k]]
         \o Candidates(lists, k + 1)

Entities(cands) == [k \in 1..Len(cands) |-> cands[k].ent]

\* append: the concatenation of the input lists
append(lists) == Entities(Candidates(lists, 1))

\* the sort key of disjunctive_union: (start_char, -score), then the longer
\* span, then the backend registered earliest
Precedes(a, b) ==
    \/ a.ent.start_char < b.ent.start_char
    \/ /\ a.ent.start_char = b.ent.start_char
       /\ \/ a.ent.score > b.ent.score
          \/ /\ a.ent.score = b.ent.score
             /\ \/ a.ent.end_char > b.ent.end_char
                \/ a.ent.end_char = b.ent.end_char /\ a.list < b.list

\* stable insertion of c into the sorted sequence s
RECURSIVE Insert(_, _)
Insert(s, c) ==
    IF s = <<>> THEN <<c>>
    ELSE IF Precedes(c, Head(s)) THEN <<c>> \o s
    ELSE <<Head(s)>> \o Insert(Tail(s), c)

RECURSIVE SortCandidates(_, _)
SortCandidates(cands, k) ==
    IF k = 0 THEN <<>>
    ELSE Insert(SortCandidates(cands, k - 1), cands[k])

\* the sweep: the positions of the sorted candidates that are accepted, each
\* accepted iff it overlaps no candidate accepted before it
RECURSIVE Sweep(_, _, _)
Sweep(sorted, k, accepted) ==
    IF k > Len(sorted) THEN accepted
    ELSE Sweep(sorted, k + 1,
               IF \E j \in accepted : Overlaps(sorted[j].ent, sorted[k].ent)
               THEN accepted ELSE accepted \cup {k})

\* the members of a set of positions, in ascending order
RECURSIVE Ascending(_)
Ascending(S) ==
    IF S = {} THEN <<>>
    ELSE LET m == CHOOSE x \in S : \A y \in S : x <= y
         IN <<m>> \o Ascending(S \ {m})

disjunctive_union(lists) ==
    LET sorted == SortCandidates(Candidates(lists, 1), Len(Candidates(lists, 1)))
        kept == Ascending(Sweep(sorted, 1, {}))
    IN [k \in 1..Len(kept) |-> sorted[kept[k]].ent]

\* the transitive closure of the overlap relation from the positions in S
RECURSIVE Cluster(_, _)
Cluster(cands, S) ==
    LET more == S \cup {j \in 1..Len(cands) :
                          \E i \in S : Overlaps(cands[i].ent, cands[j].ent)}
    IN IF more = S THEN S ELSE Cluster(cands, more)

Min(S) == CHOOSE x \in S : \A y \in S : x <= y
Max(S) == CHOOSE x \in S : \A y \in S : x >= y

\* the distinct recognizer identifiers of the members, in input order
RECURSIVE Contributors(_, _, _)
Contributors(cands, members, seen) ==
    IF members = <<>> THEN <<>>
    ELSE LET r == cands[Head(members)].ent.recognizer.ids
             new == r[1] \notin seen
         IN (IF new THEN r ELSE <<>>)
            \o Contributors(cands, Tail(members), seen \cup {r[1]})

\* the entity synthesized for one cluster
Fuse(cands, C) ==
    LET top == Max({cands[i].ent.score : i \in C})
        \* the highest-score member, ties broken by the earliest backend
        best == Min({i \in C : cands[i].ent.score = top})
    IN [start_char |-> Min({cands[i].ent.start_char : i \in C}),
        end_char |-> Max({cands[i].ent.end_char : i \in C}),
        tag |-> cands[best].ent.tag,
        score |-> top,
        recognizer |-> List(Contributors(cands, Ascending(C), {}))]

\* fusion: one synthesized entity per connected component of the overlap
\* graph, the components taken in the order of their first member
fusion(lists) ==
    LET cands == Candidates(lists, 1)
        firsts == Ascending({i \in 1..Len(cands) : i = Min(Cluster(cands, {i}))})
    IN [k \in 1..Len(firsts) |-> Fuse(cands, Cluster(cands, {firsts[k]}))]

combine(lists, strat) ==
    CASE strat = "append" -> append(lists)
      [] strat = "disjunctive_union" -> disjunctive_union(lists)
      [] strat = "fusion" -> fusion(lists)

\* recognize: the combination of the results of run_recognition
RecognizeCombineAppendOnly(res, strat) ==
    IF Len(res) = 0 THEN <<>> ELSE combine(res, "append")
RecognizeCombineFirstOnly(res, strat) ==
    IF Len(res) = 0 THEN <<>> ELSE combine(<<res[1]>>, strat)
RecognizeCombine(res, strat) ==
    IF Len(res) = 0 THEN <<>> ELSE combine(res, strat)

\* a combination run: the results of the backends are given, recognize combines them
Combine(strat) ==
    /\ cpc = "results"
    /\ cpc' = "combined"
    /\ strategy' = strat
    /\ ents' = RecognizeCombine(entLists, strat)
    /\ steps' = Append(steps, "combine")
    /\ UNCHANGED <<coreVars, orchVars, entLists, evalVars>>
    /\ UNCHANGED <<text, CONTEXT_WORDS, compute_tokens, context_words, tokens, entIdx,
                   scoresBefore, error, result>>

InitCombine ==
    /\ config = <<>>
    /\ tokenizer = <<>>
    /\ backends = <<>>
    /\ recognizer_lookup = <<>>
    /\ nbuilds = 0
    /\ ncalls = 0
    /\ arg = <<>>
    /\ argAfter = <<>>
    /\ lastUpdate = "none"
    /\ pc = "idle"
    /\ idx = 1
    /\ proc = <<>>
    /\ pipe = <<>>
    /\ sendOpen = <<>>
    /\ finished = <<>>
    /\ results = <<>>
    /\ \/ entLists = <<>>
       \/ \E n \in 0..MaxEnts : \E l \in ListsOf(Recognizers[1], n) : entLists = <<l>>
       \/ \E n \in 0..MaxEnts : \E m \in 0..(MaxEnts - n) :
             \E l1 \in ListsOf(Recognizers[1], n), l2 \in ListsOf(Recognizers[2], m) :
                entLists = <<l1, l2>>
    /\ strategy = "append"
    /\ ents = <<>>
    /\ cpc = "results"
    /\ TailIdle
    /\ EvalIdle

NextCombine == \E strat \in Strategies : Combine(strat)

SpecCombine == InitCombine /\ [][NextCombine]_vars

---------------------------------------------------------------------------
(* recognize from run_recognition on: the backends' results are combined,
   token indices are added and the scores are boosted by context words.
   Scores are integers in units of 1/ScoreOne. *)

\* the score 1.0
ScoreOne == 8

\* the scores a recognizer class gives; they and the factors are chosen so that
\* score * factor is a whole number of units
TailScores == {0, ScoreOne \div 2, (3 * ScoreOne) \div 4, ScoreOne}

\* values of Config.context_word_confidence_boost_factor, as <<numerator, denominator>>
Factors == {<<3, 2>>, <<2, 1>>}

\* the Config c with its context_word_confidence_boost_factor
WithFactor(c, f) ==
    [x \in DOMAIN c \cup {"context_word_confidence_boost_factor"} |->
        IF x = "context_word_confidence_boost_factor" THEN f ELSE c[x]]

\* the words of the text
Vocabulary == {"call", "now"}

\* the text is one character longer than the last offset of an entity
TextLen == MaxChar + 1

\* Tokenizer.tokenize, Tokenizer.get_tokens: every way of cutting the text from
\* offset pos on into tokens and of grouping the tokens into sentences; i is the
\* index of the next token, s the sentence of the token before it
RECURSIVE TextsFrom(_, _, _)
TextsFrom(pos, i, s) ==
    IF pos = TextLen THEN {<<>>}
    ELSE UNION {
           {<<[i |-> i, text |-> w, start_char |-> pos, end_char |-> pos + n, sent |-> s2]>> \o rest :
                rest \in TextsFrom(pos + n, i + 1, s2)} :
           n \in 1..(TextLen - pos), w \in Vocabulary, s2 \in IF i = 0 THEN {0} ELSE {s, s + 1}}

Texts == TextsFrom(0, 0, 0)

\* the texts of one sentence whose tokens are single characters and all "call"
PlainTexts ==
    {t \in Texts : \A j \in 1..Len(t) :
        t[j].end_char = t[j].start_char + 1 /\ t[j].sent = 0 /\ t[j].text = "call"}

\* Tokenizer.get_sentence_for_token: the tokens of the sentence of token i
get_sentence_for_token(toks, i) == SelectSeq(toks, LAMBDA t : t.sent = toks[i + 1].sent)

\* nerwhal.utils.add_token_indices for one entity
TokenIndices(e, toks) ==
    [start_tok |-> Min({t \in 1..Len(toks) : toks[t].end_char > e.start_char}) - 1,
     end_tok |-> Max({t \in 1..Len(toks) : toks[t].start_char < e.end_char})]

\* nerwhal.utils.add_token_indices
add_token_indices(es, toks) ==
    [j \in 1..Len(es) |->
        [start_char |-> es[j].start_char, end_char |-> es[j].end_char, tag |-> es[j].tag,
         score |-> es[j].score, recognizer |-> es[j].recognizer,
         start_tok |-> TokenIndices(es[j], toks).start_tok,
         end_tok |-> TokenIndices(es[j], toks).end_tok]]

HasTokenIndices(e) == "start_tok" \in DOMAIN e

\* the classes the recognizer files define
RecognizerClasses ==
    {"PhoneRecognizer", "NameRecognizer", "TitleRecognizer", "EmailRecognizer",
     "MissingRecognizer"}

\* recognizer_cls.TAG
TAG(cls) ==
    CASE cls = "PhoneRecognizer" -> "PHONE"
      [] cls = "EmailRecognizer" -> "EMAIL"
      [] cls = "NameRecognizer" -> "PER"
      [] OTHER -> "TITLE"

\* SCORE and CONTEXT_WORDS of the recognizer classes: every class alike
DefaultClasses ==
    {[cls \in RecognizerClasses |-> [SCORE |-> ScoreOne \div 2, CONTEXT_WORDS |-> {"call"}]]}

\* SCORE and CONTEXT_WORDS of the recognizer classes: every choice of them
AnyClasses ==
    {[cls \in RecognizerClasses |-> a] :
        a \in [SCORE : TailScores, CONTEXT_WORDS : SUBSET Vocabulary]}

\* character spans of entities
Spans == {sp \in (0..MaxChar) \X (0..MaxChar) : sp[1] < sp[2]}
UnitSpans == {sp \in Spans : sp[2] = sp[1] + 1}

\* what produces entities in a backend: its recognizers, or its model
Producers(b) == IF b.key = "stanza" THEN <<b.cls>> ELSE b.recs

\* the NamedEntity a backend builds for a match of producer p at span sp
EntityOf(b, p, sp, attrs) ==
    [start_char |-> sp[1], end_char |-> sp[2],
     tag |-> IF b.key = "stanza" THEN "PER" ELSE TAG(p),
     score |-> IF b.key = "stanza" THEN ScoreOne \div 2 ELSE attrs[p].SCORE,
     recognizer |-> Str(p)]

\* backend.run(text): the lists a backend may return, each of its first n
\* producers matching at most once, at one of the spans
RECURSIVE run(_, _, _, _)
run(b, attrs, spans, n) ==
    IF n = 0 THEN {<<>>}
    ELSE {l \o m : l \in run(b, attrs, spans, n - 1),
                   m \in {<<>>} \cup {<<EntityOf(b, Producers(b)[n], sp, attrs)>> : sp \in spans}}

\* run_recognition: the lists of results the first n registered backends may give
RECURSIVE run_recognition(_, _, _, _)
run_recognition(bs, attrs, spans, n) ==
    IF n = 0 THEN {<<>>}
    ELSE {Append(r, l) : r \in run_recognition(bs, attrs, spans, n - 1),
                         l \in run(bs[n], attrs, spans, Len(Producers(bs[n])))}

\* recognize up to the return of run_recognition, for a Config c, recognizer
\* classes with the attributes attrs and matches at the spans given
RunRecognition(c, attrs, spans) ==
    /\ cpc = "unused"
    /\ LET u == update_config(c)
       IN /\ config' = u.config
          /\ tokenizer' = u.tokenizer
          /\ backends' = u.backends
          /\ recognizer_lookup' = u.recognizer_lookup
          /\ nbuilds' = u.nbuilds
          /\ ncalls' = ncalls + 1
          /\ arg' = c
          /\ argAfter' = u.argAfter
          /\ lastUpdate' = u.how
          /\ IF u.how = "raised"
             THEN /\ cpc' = "raised"
                  /\ error' = "ValueError"
                  /\ UNCHANGED <<entLists, CONTEXT_WORDS, steps>>
             ELSE /\ cpc' = "results"
                  /\ \E r \in run_recognition(u.backends, attrs, spans, Len(u.backends)) :
                        entLists' = r
                  /\ CONTEXT_WORDS' = [cls \in u.recognizer_lookup[1] |-> attrs[cls].CONTEXT_WORDS]
                  /\ steps' = <<"run">>
                  /\ error' = ""
    /\ UNCHANGED <<orchVars, strategy, ents, evalVars>>
    /\ UNCHANGED <<text, compute_tokens, context_words, tokens, entIdx, scoresBefore, result>>

\* the condition under which recognize tokenizes and adds token indices
NeedsTokensComputeOnly(ct, cw) == ct
NeedsTokens(ct, cw) == ct \/ cw

\* what recognize returns
Returned(ct, toks, es) ==
    IF ct THEN [tokens |-> toks, ents |-> es] ELSE [ents |-> es]

\* recognize after combine, up to the loop over ents; without context_words
\* it returns here. ct and cw are the parameters compute_tokens and
\* context_words, read here for the first time; txt is what the tokenizer
\* makes of the text
IndexTokens(ct, cw, txt) ==
    /\ cpc = "combined"
    /\ compute_tokens' = ct
    /\ context_words' = cw
    /\ text' = txt
    /\ LET indexed == IF NeedsTokens(ct, cw) THEN add_token_indices(ents, txt) ELSE ents
           toks == IF NeedsTokens(ct, cw) THEN txt ELSE <<>>
       IN /\ ents' = indexed
          /\ tokens' = toks
          /\ steps' = IF NeedsTokens(ct, cw) THEN Append(steps, "index") ELSE steps
          /\ scoresBefore' = [j \in 1..Len(ents) |-> ents[j].score]
          /\ IF cw
             THEN cpc' = "boost" /\ result' = result
             ELSE cpc' = "returned" /\ result' = Returned(ct, toks, indexed)
    /\ UNCHANGED <<coreVars, orchVars, entLists, strategy, evalVars>>
    /\ UNCHANGED <<CONTEXT_WORDS, entIdx, error>>

\* score * factor
Times(score, f) == (score * f[1]) \div f[2]

\* the texts of the tokens of the entity's sentence outside the entity
SentenceWithoutEntAll(toks, e) ==
    LET sentence_tokens == get_sentence_for_token(toks, e.start_tok)
    IN {sentence_tokens[j].text : j \in 1..Len(sentence_tokens)}
SentenceWithoutEnt(toks, e) ==
    LET sentence_tokens == get_sentence_for_token(toks, e.start_tok)
        outside == SelectSeq(sentence_tokens, LAMBDA t : t.i < e.start_tok \/ t.i >= e.end_tok)
    IN {outside[j].text : j \in 1..Len(outside)}

\* min(ent.score * factor, 1.0)
BoostedUncapped(score, f) == Times(score, f)
Boosted(score, f) == IF Times(score, f) < ScoreOne THEN Times(score, f) ELSE ScoreOne

\* the exception the loop body raises for entity e, "" for none
LoopError(e) ==
    IF ~HasTokenIndices(e) THEN "TypeError"
    ELSE IF e.recognizer.kind # "str" THEN "TypeError"
    ELSE IF e.recognizer.ids[1] \notin recognizer_lookup[1] THEN "KeyError"
    ELSE ""

\* the body of the loop over ents for entity e
BoostEntity(e, toks, f) ==
    IF \E word \in CONTEXT_WORDS[e.recognizer.ids[1]] : word \in SentenceWithoutEnt(toks, e)
    THEN [e EXCEPT !.score = Boosted(e.score, f)]
    ELSE e

\* the loop over ents from position j on: the entities afterwards and the
\* position and exception at which it stopped
RECURSIVE BoostLoop(_, _, _, _)
BoostLoop(es, j, toks, f) ==
    IF j > Len(es) THEN [ents |-> es, at |-> j, error |-> ""]
    ELSE IF LoopError(es[j]) # "" THEN [ents |-> es, at |-> j, error |-> LoopError(es[j])]
    ELSE BoostLoop([es EXCEPT ![j] = BoostEntity(es[j], toks, f)], j + 1, toks, f)

\* recognize with context_words, from the loop over ents to the return
Boost ==
    /\ cpc = "boost"
    /\ LET f == config[1].context_word_confidence_boost_factor
           b == BoostLoop(ents, 1, text, f)
       IN /\ ents' = b.ents
          /\ entIdx' = b.at
          /\ error' = b.error
          /\ steps' = Append(steps, "boost")
          /\ IF b.error = ""
             THEN cpc' = "returned" /\ result' = Returned(compute_tokens, tokens, b.ents)
             ELSE cpc' = "raised" /\ result' = result
    /\ UNCHANGED <<coreVars, orchVars, entLists, strategy, evalVars>>
    /\ UNCHANGED <<text, CONTEXT_WORDS, compute_tokens, context_words, tokens, scoresBefore>>

NextRecognize ==
    \/ \E c \in Configs : RunRecognition(WithFactor(c, <<3, 2>>), CHOOSE a \in DefaultClasses : TRUE, UnitSpans)
    \/ \E strat \in Strategies : Combine(strat)
    \/ \E ct, cw \in BOOLEAN, txt \in PlainTexts : IndexTokens(ct, cw, txt)
    \/ Boost

SpecRecognize == Init /\ [][NextRecognize]_vars

\* the Config of a caller with one recognizer file
PhoneConfig ==
    [language |-> "de", use_statistical_ner |-> FALSE, load_example_recognizers |-> FALSE,
     recognizer_paths |-> <<RE_PATH>>]

NextBoost ==
    \/ \E f \in Factors, a \in AnyClasses : RunRecognition(WithFactor(PhoneConfig, f), a, Spans)
    \/ Combine("append")
    \/ \E ct \in BOOLEAN, txt \in Texts : IndexTokens(ct, TRUE, txt)
    \/ Boost

SpecBoost == Init /\ [][NextBoost]_vars

---------------------------------------------------------------------------
(* evaluate and score_entities: the scorer compares entities on
   (start_char, end_char, tag) and matches greedily by descending score *)

\* number of entities in the predicted and the gold list together
MaxEvalEnts == 3

\* the entities given to evaluate; triples are compared for equality only, so
\* the spans that start at 0 give every case
EvalEntities ==
    {e \in EntitiesOf(Recognizers[1]) \cup EntitiesOf(Recognizers[2]) : e.start_char = 0}

\* the reference entities of an annotator: their score is not a model's
GoldEntities == {e \in EvalEntities : \A f \in EvalEntities : f.score <= e.score}

Triple(e) == <<e.start_char, e.end_char, e.tag>>

\* position i inserted into the positions o, which are in descending order of
\* score; equal scores keep the order of the list
InsertByScore(o, i, pred) ==
    LET pos == Cardinality({j \in 1..Len(o) : pred[o[j]].score >= pred[i].score})
    IN SubSeq(o, 1, pos) \o <<i>> \o SubSeq(o, pos + 1, Len(o))

\* the positions of the first n predicted entities by descending score
RECURSIVE DescendingOrder(_, _)
DescendingOrder(pred, n) ==
    IF n = 0 THEN <<>> ELSE InsertByScore(DescendingOrder(pred, n - 1), n, pred)

\* the gold positions a predicted entity may still be matched to
UnmatchedGold(pred, gld, i, M) ==
    {g \in 1..Len(gld) : Triple(gld[g]) = Triple(pred[i]) /\ \A m \in M : m[2] # g}

\* the greedy matching from the j-th predicted entity of the order on: pairs
\* <<position in predicted, position in gold>>
RECURSIVE GreedyMatch(_, _, _, _, _)
GreedyMatch(pred, gld, order, j, M) ==
    IF j > Len(order) THEN M
    ELSE LET i == order[j]
             free == UnmatchedGold(pred, gld, i, M)
         IN GreedyMatch(pred, gld, order, j + 1,
                        IF free = {} THEN M ELSE M \cup {<<i, Min(free)>>})

Matching(pred, gld) == GreedyMatch(pred, gld, DescendingOrder(pred, Len(pred)), 1, {})

TruePositives(pred, gld) == Cardinality(Matching(pred, gld))
FalsePositives(pred, gld) ==
    Cardinality({i \in 1..Len(pred) : \A m \in Matching(pred, gld) : m[1] # i})
FalseNegatives(pred, gld) ==
    Cardinality({g \in 1..Len(gld) : \A m \in Matching(pred, gld) : m[2] # g})

\* rational numbers <<numerator, denominator>> in lowest terms
RECURSIVE Gcd(_, _)
Gcd(a, b) == IF b = 0 THEN a ELSE Gcd(b, a % b)

Rat(n, d) == IF n = 0 THEN <<0, 1>> ELSE <<n \div Gcd(n, d), d \div Gcd(n, d)>>

\* n / d, 0 if d = 0
Ratio(n, d) == IF d = 0 THEN Rat(0, 1) ELSE Rat(n, d)

\* 2PR / (P + R), 0 if P + R = 0
F1Halved(P, R) == Ratio(P[1] * R[1], P[1] * R[2] + R[1] * P[2])
F1(P, R) == Ratio(2 * P[1] * R[1], P[1] * R[2] + R[1] * P[2])

Measure(pred, gld) ==
    LET tp == TruePositives(pred, gld)
        P == Ratio(tp, tp + FalsePositives(pred, gld))
        R == Ratio(tp, tp + FalseNegatives(pred, gld))
    IN [precision |-> P, recall |-> R, f1 |-> F1(P, R)]

ByTag(es, t) == SelectSeq(es, LAMBDA e : e.tag = t)

score_entities(pred, gld) ==
    LET overall == Measure(pred, gld)
        tags == {pred[i].tag : i \in 1..Len(pred)} \cup {gld[i].tag : i \in 1..Len(gld)}
    IN [precision |-> overall.precision, recall |-> overall.recall, f1 |-> overall.f1,
        per_tag |-> [t \in tags |-> Measure(ByTag(pred, t), ByTag(gld, t))]]

\* nerwhal.core.evaluate
evaluateSwapped(es, gld) == score_entities(gld, es)
evaluate(es, gld) == score_entities(es, gld)

Evaluate ==
    /\ epc = "given"
    /\ epc' = "scored"
    /\ metrics' = evaluate(predicted, gold)
    /\ UNCHANGED <<coreVars, orchVars, combVars, tailVars, predicted, gold>>

InitEvaluate ==
    /\ config = <<>>
    /\ tokenizer = <<>>
    /\ backends = <<>>
    /\ recognizer_lookup = <<>>
    /\ nbuilds = 0
    /\ ncalls = 0
    /\ arg = <<>>
    /\ argAfter = <<>>
    /\ lastUpdate = "none"
    /\ pc = "idle"
    /\ idx = 1
    /\ proc = <<>>
    /\ pipe = <<>>
    /\ sendOpen = <<>>
    /\ finished = <<>>
    /\ results = <<>>
    /\ entLists = <<>>
    /\ strategy = "append"
    /\ ents = <<>>
    /\ cpc = "unused"
    /\ TailIdle
    /\ \/ \E n \in 0..MaxEvalEnts : \E m \in 0..(MaxEvalEnts - n) :
             \E p \in [1..n -> EvalEntities], g \in [1..m -> GoldEntities] :
                predicted = p /\ gold = g
       \/ \E n \in 1..MaxEvalEnts : \E X \in [1..n -> EvalEntities] :
             predicted = X /\ gold = X
    /\ metrics = <<>>
    /\ epc = "given"

NextEvaluate == Evaluate

SpecEvaluate == InitEvaluate /\ [][NextEvaluate]_vars

---------------------------------------------------------------------------
(* Properties of Core._run_in_parallel and Core.update_config *)

\* C1: the list _run_in_parallel builds holds, at position k, the result sent
\* by the k-th registered backend, whatever the order in which the processes
\* ended; the returned list has one entry per backend.
C1_ResultsInRegistrationOrder ==
    /\ pc \in {"recv", "combine"} =>
          /\ Len(results) <= Len(backends)
          /\ \A k \in 1..Len(results) : results[k] = backends[k].key
    /\ pc = "combine" => Len(results) = Len(backends)

\* C1 witness: a call returned two or more results although the first process
\* to end was not the first backend's.
C1_Witness ==
    /\ pc = "combine"
    /\ Len(results) >= 2
    /\ finished # <<>>
    /\ finished[1] # 1

\* C2: once a backend's run has raised, the call returns no list and the
\* orchestrator itself fails: after joining every process it is not left
\* waiting on the failed backend's pipe, it raises.
C2_OrchestratorFailsWhenBackendRaises ==
    (\E i \in 1..Len(proc) : proc[i] = "failed") =>
        /\ pc \notin {"combine", "returned"}
        /\ pc = "recv" => ENABLED Recv

\* a recognizer path that is not a file, or a recognizer whose BACKEND
\* identifier nerwhal.backends.load does not know
IsInvalidConfig(c) ==
    \E p \in Range(c.recognizer_paths) :
        \/ ~IsFile(p)
        \/ BACKEND(LoadClass(p)) \notin {"spacy", "re"}

\* C3: a recognize call whose config names an invalid recognizer path or an
\* unknown backend raises before any backend's run is started, whatever the
\* earlier calls were.
C3_InvalidConfigRaisesBeforeRun ==
    (ncalls > 0 /\ IsInvalidConfig(arg)) =>
        /\ pc = "raised"
        /\ lastUpdate = "raised"
        /\ \A i \in 1..Len(proc) : proc[i] = "none"

\* the recognizer paths a config stands for, bundled examples included
PathsOf(c) ==
    Range(c.recognizer_paths) \cup
    (IF c.load_example_recognizers THEN Range(EXAMPLE_RECOGNIZERS) ELSE {})

\* C4: after update_config(c) rebuilt Core for a config c that differs from
\* the held one and returned normally, backends and recognizer_lookup hold
\* exactly what c stands for, every backend and the tokenizer an instance
\* built in this rebuild.
C4_FullRebuild ==
    lastUpdate = "rebuilt" =>
        /\ Keys(backends) =
              (IF arg.use_statistical_ner THEN {"stanza"} ELSE {}) \cup
              {BACKEND(LoadClass(p)) : p \in PathsOf(arg)}
        /\ Cardinality(Keys(backends)) = Len(backends)
        /\ \A i \in 1..Len(backends) :
              /\ backends[i].inst = nbuilds
              /\ Range(backends[i].recs) =
                    {LoadClass(p) : p \in {q \in PathsOf(arg) :
                                              BACKEND(LoadClass(q)) = backends[i].key}}
        /\ recognizer_lookup = <<{LoadClass(p) : p \in PathsOf(arg)}>>
        /\ tokenizer = <<[language |-> arg.language, inst |-> nbuilds]>>

\* C4 witness: a second rebuild ended normally with backends in place.
C4_Witness ==
    /\ lastUpdate = "rebuilt"
    /\ nbuilds >= 2
    /\ Len(backends) >= 2

\* C5: update_config(c) with c equal to the held config changes no field of
\* Core, constructs nothing and registers nothing; a rebuild is begun only
\* for a config that differs from the held one.
C5_EqualConfigChangesNothing ==
    [][ncalls' = ncalls + 1 =>
          /\ config = <<arg'>> =>
                /\ UNCHANGED <<config, tokenizer, backends, recognizer_lookup, nbuilds>>
                /\ lastUpdate' = "skipped"
          /\ nbuilds' # nbuilds => config # <<arg'>>]_vars

\* C5 witness: a call passed the held config while Core held backends with
\* registered recognizers, and update_config returned at its gate.
C5_Witness ==
    /\ lastUpdate = "skipped"
    /\ config = <<arg>>
    /\ \E i \in 1..Len(backends) : backends[i].recs # <<>>

---------------------------------------------------------------------------
(* Properties of the combination strategies *)

Inputs == Candidates(entLists, 1)

\* the character indices a list of entities covers
Coverage(es) ==
    {x \in 0..(MaxChar - 1) :
        \E k \in 1..Len(es) : es[k].start_char <= x /\ x < es[k].end_char}

NoInputsOverlap ==
    \A i, j \in 1..Len(Inputs) : i # j => ~Overlaps(Inputs[i].ent, Inputs[j].ent)

\* C6: the output of disjunctive_union holds no two distinct entities that
\* overlap.
C6_DisjunctiveUnionDisjoint ==
    (cpc = "combined" /\ strategy = "disjunctive_union") =>
        \A i, j \in 1..Len(ents) : i # j => ~Overlaps(ents[i], ents[j])

\* C6 witness: disjunctive_union ran on overlapping inputs and kept two or
\* more entities.
C6_Witness ==
    /\ cpc = "combined"
    /\ strategy = "disjunctive_union"
    /\ ~NoInputsOverlap
    /\ Len(ents) >= 2

\* C7: in the sweep of disjunctive_union every discarded candidate overlaps
\* a candidate accepted earlier whose score is at least as high and whose
\* start_char is no later.
C7_DiscardedLosesToBetter ==
    (cpc = "combined" /\ strategy = "disjunctive_union") =>
        LET sorted == SortCandidates(Inputs, Len(Inputs))
            accepted == Sweep(sorted, 1, {})
        IN /\ ents = [k \in 1..Len(Ascending(accepted)) |->
                         sorted[Ascending(accepted)[k]].ent]
           /\ \A k \in (1..Len(sorted)) \ accepted :
                \E j \in accepted :
                    /\ j < k
                    /\ Overlaps(sorted[j].ent, sorted[k].ent)
                    /\ sorted[j].ent.score >= sorted[k].ent.score
                    /\ sorted[j].ent.start_char <= sorted[k].ent.start_char

\* the start offsets at which a connected component of the overlap graph
\* begins: those no other input entity reaches across
ComponentStarts ==
    {Inputs[i].ent.start_char : i \in {k \in 1..Len(Inputs) :
        ~\E j \in 1..Len(Inputs) :
            /\ Inputs[j].ent.start_char < Inputs[k].ent.start_char
            /\ Inputs[k].ent.start_char < Inputs[j].ent.end_char}}

\* C8: the output of fusion covers exactly the character indices the inputs
\* cover, and has one entity per connected component of the overlap graph.
C8_FusionCoverageAndCount ==
    (cpc = "combined" /\ strategy = "fusion") =>
        /\ Coverage(ents) = Coverage(Entities(Inputs))
        /\ Len(ents) = Cardinality(ComponentStarts)

\* C8 witness: fusion merged a chain of three entities whose ends do not
\* overlap each other, beside nothing else.
C8_Witness ==
    /\ cpc = "combined"
    /\ strategy = "fusion"
    /\ Len(Inputs) = 3
    /\ Len(ents) = 1
    /\ \E i, j \in 1..Len(Inputs) : i # j /\ ~Overlaps(Inputs[i].ent, Inputs[j].ent)

\* position in the output of append of the j-th entity of the i-th list
RECURSIVE Offset(_)
Offset(i) == IF i <= 1 THEN 0 ELSE Offset(i - 1) + Len(entLists[i - 1])

\* C9: the output of append is the concatenation of the input lists in
\* input order: every entity of every list at its place, nothing dropped,
\* deduplicated or reordered.
C9_AppendIsConcatenation ==
    (cpc = "combined" /\ strategy = "append") =>
        /\ Len(ents) = Offset(Len(entLists) + 1)
        /\ \A i \in 1..Len(entLists) : \A j \in 1..Len(entLists[i]) :
              ents[Offset(i) + j] = entLists[i][j]

\* C9 witness: append ran on two non-empty lists holding overlapping
\* entities, one list holding the same entity twice.
C9_Witness ==
    /\ cpc = "combined"
    /\ strategy = "append"
    /\ Len(entLists) = 2
    /\ Len(entLists[2]) >= 1
    /\ Len(entLists[1]) = 2
    /\ entLists[1][1] = entLists[1][2]
    /\ Overlaps(entLists[1][1], entLists[2][1])

\* C10: when no two input entities overlap, fusion and disjunctive_union
\* each return the input entities unchanged as a set, every field included.
C10_DisjointInputUnchanged ==
    (cpc = "combined" /\ strategy \in {"fusion", "disjunctive_union"} /\ NoInputsOverlap) =>
        Range(ents) = Range(Entities(Inputs))

---------------------------------------------------------------------------
(* Further properties of Core._run_in_parallel and Core.update_config *)

\* C15: fork/join. The orchestrator waits only after every unit has been
\* started, and reads a channel and returns only after every unit has
\* ended; nothing is received before.
C15_ForkJoin ==
    /\ pc = "join" => \A i \in 1..Len(proc) : proc[i] # "none"
    /\ pc \in {"start", "join"} => results = <<>>
    /\ pc \in {"recv", "combine"} =>
          \A i \in 1..Len(proc) : proc[i] \in {"exited", "failed"}

\* C15 witness: the orchestrator is receiving, with one result read and
\* another still in its pipe.
C15_Witness ==
    /\ pc = "recv"
    /\ Len(results) = 1
    /\ \E i \in 1..Len(pipe) : pipe[i] # <<>>

\* C16: update_config and recognize leave the caller's Config value as it
\* was passed, recognizer_paths included.
C16_CallerConfigNotModified ==
    ncalls > 0 => argAfter = arg

\* a step of the units or of the orchestrator is possible
CallCanProceed ==
    \/ ENABLED StartProc
    \/ ENABLED Join
    \/ ENABLED Recv
    \/ \E i \in 1..Len(proc) : proc[i] = "running"

\* C17: while no backend's run has raised, the call is never stuck: no unit
\* stays blocked in send while the orchestrator waits for it in join.
C17_NoUnitBlockedInSend ==
    (pc \in {"start", "join", "recv"} /\ \A i \in 1..Len(proc) : proc[i] # "failed") =>
        /\ CallCanProceed
        /\ ~(pc = "join" /\ proc[idx] = "blocked")

\* C19: for a config whose recognizers are files, one of them with BACKEND
\* "entity-ruler", update_config does not raise: it loads the backend class,
\* constructs it with config.language, stores it under "entity-ruler" and
\* registers the recognizer in it.
C19_EntityRulerBackendLoaded ==
    (/\ lastUpdate \in {"rebuilt", "raised"}
     /\ RULER_PATH \in PathsOf(arg)
     /\ \A p \in PathsOf(arg) : IsFile(p)) =>
        /\ lastUpdate = "rebuilt"
        /\ \E i \in 1..Len(backends) :
              /\ backends[i].key = "entity-ruler"
              /\ backends[i].language = arg.language
              /\ LoadClass(RULER_PATH) \in Range(backends[i].recs)

---------------------------------------------------------------------------
(* Properties of evaluate and score_entities *)

One == Rat(1, 1)

\* C13: the matching of score_entities pairs only entities with equal
\* (start_char, end_char, tag), pairs each gold entity with at most one
\* predicted entity and each predicted entity with at most one gold entity;
\* TP + FP is the length of predicted and TP + FN the length of gold, and the
\* precision and recall returned are TP over these lengths.
C13_MatchingIsOneToOne ==
    epc = "scored" =>
        LET M == Matching(predicted, gold)
            tp == TruePositives(predicted, gold)
        IN /\ \A m \in M : Triple(predicted[m[1]]) = Triple(gold[m[2]])
           /\ \A m, n \in M : (m[1] = n[1] \/ m[2] = n[2]) => m = n
           /\ tp + FalsePositives(predicted, gold) = Len(predicted)
           /\ tp + FalseNegatives(predicted, gold) = Len(gold)
           /\ metrics.precision = Ratio(tp, Len(predicted))
           /\ metrics.recall = Ratio(tp, Len(gold))

\* C13 witness: two predicted entities with the same triple compete for the one
\* gold entity with that triple: one true positive, one false positive.
C13_Witness ==
    /\ epc = "scored"
    /\ Len(predicted) = 2
    /\ Len(gold) = 1
    /\ Triple(predicted[1]) = Triple(predicted[2])
    /\ Triple(predicted[1]) = Triple(gold[1])
    /\ predicted[1].score < predicted[2].score
    /\ Matching(predicted, gold) = {<<2, 1>>}
    /\ metrics.precision = Rat(1, 2)
    /\ metrics.recall = One

UniqueTriples(X) == \A i, j \in 1..Len(X) : Triple(X[i]) = Triple(X[j]) => i = j

\* C14: a non-empty list with unique triples scored against itself has
\* TP = len, FP = 0, FN = 0 and precision, recall and F1 of 1.0 overall,
\* whatever the scores of its entities.
C14_PerfectScoring ==
    (epc = "scored" /\ predicted = gold /\ Len(predicted) > 0 /\ UniqueTriples(predicted)) =>
        /\ TruePositives(predicted, gold) = Len(predicted)
        /\ FalsePositives(predicted, gold) = 0
        /\ FalseNegatives(predicted, gold) = 0
        /\ metrics.precision = One
        /\ metrics.recall = One
        /\ metrics.f1 = One

\* C14 witness: a list of two entities with different triples, tags and scores
\* has been scored against itself.
C14_Witness ==
    /\ epc = "scored"
    /\ predicted = gold
    /\ Len(predicted) = 2
    /\ UniqueTriples(predicted)
    /\ predicted[1].score # predicted[2].score
    /\ predicted[1].tag # predicted[2].tag
    /\ metrics.f1 = One

---------------------------------------------------------------------------
(* Properties of recognize after run_recognition *)

\* the call has gone through the loop over ents and returned
BoostDone == cpc = "returned" /\ context_words

\* a context word of the entity's recognizer is the text of token t
IsContextWord(e, t) == text[t].text \in CONTEXT_WORDS[e.recognizer.ids[1]]

\* token t is outside the token range of the entity
OutsideEntity(e, t) == text[t].i < e.start_tok \/ text[t].i >= e.end_tok

\* a context word occurs outside the entity in a sentence that holds a token
\* of the entity
ContextInSentences(e) ==
    \E t \in 1..Len(text) :
        /\ \E u \in (e.start_tok + 1)..e.end_tok : text[t].sent = text[u].sent
        /\ OutsideEntity(e, t)
        /\ IsContextWord(e, t)

\* a context word occurs outside the entity in the sentence of the entity's
\* first token
ContextInFirstSentence(e) ==
    \E t \in 1..Len(text) :
        /\ text[t].sent = text[e.start_tok + 1].sent
        /\ OutsideEntity(e, t)
        /\ IsContextWord(e, t)

BoostFactor == config[1].context_word_confidence_boost_factor

CappedProduct(score) ==
    IF score * BoostFactor[1] < ScoreOne * BoostFactor[2]
    THEN (score * BoostFactor[1]) \div BoostFactor[2]
    ELSE ScoreOne

C12_BoostWithinBounds ==
    BoostDone =>
        \A j \in 1..Len(ents) :
            (/\ scoresBefore[j] >= 0
             /\ scoresBefore[j] <= ScoreOne
             /\ BoostFactor[1] > BoostFactor[2]) =>
                /\ ents[j].score <= ScoreOne
                /\ ents[j].score >= scoresBefore[j]

\* C12 witness: a context word was found and score * factor is above 1.0; the
\* score returned is 1.0.
C12_Witness ==
    /\ BoostDone
    /\ Len(ents) = 1
    /\ ContextInFirstSentence(ents[1])
    /\ scoresBefore[1] > 0
    /\ scoresBefore[1] < ScoreOne
    /\ scoresBefore[1] * BoostFactor[1] > ScoreOne * BoostFactor[2]
    /\ ents[1].score = ScoreOne

\* C18: with context_words, the recognizer of every entity of the combined
\* list is a key of Core.recognizer_lookup, and the loop raises no lookup
\* failure, under every strategy and every mix of backends.
C18_EveryRecognizerInLookup ==
    /\ cpc = "boost" =>
          \A j \in 1..Len(ents) :
              /\ ents[j].recognizer.kind = "str"
              /\ ents[j].recognizer.ids[1] \in recognizer_lookup[1]
    /\ error \notin {"KeyError", "TypeError"}

StepRank(st) ==
    CASE st = "run" -> 1
      [] st = "combine" -> 2
      [] st = "index" -> 3
      [] st = "boost" -> 4

\* C20: the steps of a recognize call are taken in the order run, combine,
\* token indexing, context boosting, and when context boosting runs every
\* entity of the combined list has its token indices, whatever compute_tokens is.
C20_StepsInOrder ==
    /\ \A a, b \in 1..Len(steps) : a < b => StepRank(steps[a]) < StepRank(steps[b])
    /\ \A a \in 1..Len(steps) : a > 1 /\ steps[a] # "boost" => StepRank(steps[a - 1]) = StepRank(steps[a]) - 1
    /\ \A a \in 1..Len(steps) : steps[a] = "boost" => a > 1 /\ steps[a - 1] = "index"
    /\ Len(steps) > 0 => steps[1] = "run"
    /\ cpc = "boost" => \A j \in 1..Len(ents) : HasTokenIndices(ents[j])
    /\ (cpc = "raised" /\ entIdx <= Len(ents)) => HasTokenIndices(ents[entIdx])

\* C20 witness: a call with compute_tokens false and context_words true has
\* returned two entities after indexing and boosting them, and no tokens.
C20_Witness ==
    /\ cpc = "returned"
    /\ ~compute_tokens
    /\ context_words
    /\ steps = <<"run", "combine", "index", "boost">>
    /\ Len(ents) = 2
    /\ \A j \in 1..Len(ents) : HasTokenIndices(ents[j]) /\ ents[j].score > scoresBefore[j]
    /\ DOMAIN result = {"ents"}

=============================================================================
